---- MODULE Spec2Model ----
(***************************************************************************)
(* Trust-region optimizer (optimizer/trust_region.py) and its PCG          *)
(* sub-problem solver (optimizer/pcg.py).                                  *)
(*                                                                         *)
(* Reals are exact rationals <<num, den>> (den > 0, lowest terms); vectors *)
(* are sequences of rationals, matrices sequences of rows.  The square     *)
(* root of norm2 is exact on perfect squares and otherwise rounded down to *)
(* a multiple of 1 / SqrtDen, as a finite-precision sqrt rounds.           *)
(***************************************************************************)
EXTENDS Integers, Sequences, FiniteSets, TLC

\* ------------------------------------------------------------------ bounds
\* x ranges over the grid 0 .. GridMax in the driver
GridMax == 3
\* opts.max_iter ranges over -2 .. MaxIterBound
MaxIterBound == 2
\* precision of the rounded square root
SqrtDen == 16
\* the ratio computation is run on the rationals n / d with |n| <= RatioMax
\* and 1 <= d <= RatioDen
RatioMax == 3
RatioDen == 2

\* ------------------------------------------------------- exact arithmetic
\* Python's None: the empty tuple, which is no vector and no rational
None == <<>>

Abs(i) == IF i < 0 THEN -i ELSE i

Max(a, b) == IF a >= b THEN a ELSE b

RECURSIVE GCD(_, _)
GCD(a, b) == IF b = 0 THEN a ELSE GCD(b, a % b)

\* the rational n / d (d # 0) in lowest terms with a positive denominator
Rat(n, d) ==
    LET s == IF d < 0 THEN -1 ELSE 1
        k == GCD(Abs(n), Abs(d))
    IN  <<(s * n) \div k, (s * d) \div k>>

RInt(i) == <<i, 1>>
RZero == <<0, 1>>
ROne == <<1, 1>>
\* (common factors are divided out before multiplying, which keeps the
\* intermediate products small)
RAdd(a, b) ==
    IF a[2] = b[2] THEN Rat(a[1] + b[1], a[2])
    ELSE LET k == GCD(a[2], b[2])
         IN  Rat(a[1] * (b[2] \div k) + b[1] * (a[2] \div k),
                 (a[2] \div k) * b[2])
RNeg(a) == <<-a[1], a[2]>>
RSub(a, b) == RAdd(a, RNeg(b))
RMul(a, b) ==
    LET k1 == GCD(Abs(a[1]), b[2])
        k2 == GCD(Abs(b[1]), a[2])
    IN  <<(a[1] \div k1) * (b[1] \div k2), (a[2] \div k2) * (b[2] \div k1)>>
\* b # 0 at every use (the callers guard it as the code does)
RDiv(a, b) == RMul(a, IF b[1] < 0 THEN <<-b[2], -b[1]>> ELSE <<b[2], b[1]>>)
RLt(a, b) ==
    IF a[2] = b[2] THEN a[1] < b[1]
    ELSE LET k == GCD(a[2], b[2])
         IN  a[1] * (b[2] \div k) < b[1] * (a[2] \div k)
RLe(a, b) == ~RLt(b, a)
RAbs(a) == <<Abs(a[1]), a[2]>>

\* floor of the square root of a natural number
\* (by bisection: the root lies in lo .. hi)
RECURSIVE ISqrtIn(_, _, _)
ISqrtIn(n, lo, hi) ==
    IF lo = hi THEN lo
    ELSE LET mid == (lo + hi + 1) \div 2
         IN  IF mid * mid <= n THEN ISqrtIn(n, mid, hi)
             ELSE ISqrtIn(n, lo, mid - 1)

ISqrt(n) ==
    IF n < 2 THEN n
    ELSE ISqrtIn(n, 1, IF n < 46340 THEN n \div 2 + 1 ELSE 46340)

\* math.sqrt on a rational >= 0
RSqrt(a) ==
    LET s1 == ISqrt(a[1])
        s2 == ISqrt(a[2])
    IN  IF s1 * s1 = a[1] /\ s2 * s2 = a[2]
        THEN <<s1, s2>>
        ELSE Rat(ISqrt((a[1] * SqrtDen * SqrtDen) \div a[2]), SqrtDen)

\* ----------------------------------------------------------------- vectors
RECURSIVE SumSeq(_)
SumSeq(s) == IF s = <<>> THEN RZero ELSE RAdd(s[1], SumSeq(Tail(s)))

Dot(u, v) == SumSeq([i \in 1..Len(u) |-> RMul(u[i], v[i])])
VAdd(u, v) == [i \in 1..Len(u) |-> RAdd(u[i], v[i])]
VSub(u, v) == [i \in 1..Len(u) |-> RSub(u[i], v[i])]
VScale(c, u) == [i \in 1..Len(u) |-> RMul(c, u[i])]
VNeg(u) == [i \in 1..Len(u) |-> RNeg(u[i])]
\* elementwise u / R
VDivEl(u, R) == [i \in 1..Len(u) |-> RDiv(u[i], R[i])]
MatVec(M, v) == [i \in 1..Len(M) |-> Dot(M[i], v)]
Zeros(n) == [i \in 1..n |-> RZero]
IsZeroVec(u) == \A i \in 1..Len(u) : u[i] = RZero
IntVec(s) == [i \in 1..Len(s) |-> RInt(s[i])]

\* numerical.linneq.check(p, (A, b, lb, ub)): A p <= b and lb <= p <= ub
check(p, constraints) ==
    /\ \A i \in 1..Len(constraints.A) :
          RLe(Dot(constraints.A[i], p), constraints.b[i])
    /\ \A j \in 1..Len(p) :
          RLe(constraints.lb[j], p[j]) /\ RLe(p[j], constraints.ub[j])

\* pcg.fval: g.T @ p + (0.5 * p).T @ H @ p
fval_model(g, H, p) == RAdd(Dot(g, p), Dot(VScale(<<1, 2>>, p), MatVec(H, p)))

\* pcg.norm2 and PCG_Status.size: math.sqrt(float(x @ x))
norm2(x) == RSqrt(Dot(x, x))

\* ------------------------------------------------------------- PCG status
PCG_Flag ==
    {"RESIDUAL_CONVERGENCE", "NEGATIVE_CURVATURE", "OUT_OF_TRUST_REGION",
     "VIOLATE_CONSTRAINTS", "POLICY_ONLY"}

\* PCG_Status.__init__
PCG_Status(x, fv, it, flag) ==
    [x |-> x, fval |-> fv, iter |-> it, flag |-> flag,
     size |-> IF x = None THEN None ELSE norm2(x)]

\* lexicographic test used three times in pcg.py: (fa, pa) strictly better
\* than (fb, pb)
StrictlyBetter(fa, pa, fb, pb) ==
    RLt(fa, fb) \/ (fa = fb /\ RLt(norm2(pa), norm2(pb)))

\* ------------------------------------------------- external collaborators
\* all vectors of length n over a set of integers
IntVectors(n, S) == {IntVec(s) : s \in [1..n -> S]}

\* hessian_precon(H): a positive vector of the shape of g, here all ones or
\* (2, 3, ...)
hessian_precon(H) ==
    {[i \in 1..Len(H) |-> ROne], [i \in 1..Len(H) |-> RInt(i + 1)]}

\* gradient_precon(g): a positive vector of the shape of g, here all ones
\* or (..., 3, 2)
gradient_precon(g) ==
    {[i \in 1..Len(g) |-> ROne], [i \in 1..Len(g) |-> RInt(Len(g) + 2 - i)]}

RECURSIVE MaxAbsFrom(_, _)
MaxAbsFrom(u, i) ==
    IF i > Len(u) THEN RZero
    ELSE LET m == MaxAbsFrom(u, i + 1)
         IN  IF RLt(m, RAbs(u[i])) THEN RAbs(u[i]) ELSE m

\* numpy.max(numpy.abs(u))
MaxAbs(u) == MaxAbsFrom(u, 1)

\* lengths of the walks subspace_decay may take along direct: those that move
\* the largest component by 1 .. GridMax
StepLengths(direct) ==
    {RDiv(RInt(k), MaxAbs(direct)) : k \in 1..GridMax}

\* subspace_decay(g, H, origin, direct, delta, constraints, flag): the set of
\* its possible results [p, flag]: no point when the walk is degenerate,
\* else a feasible point of the trust region on the ray from origin
subspace_decay(g, H, origin, direct, delta, constraints, flag) ==
    {[p |-> None, flag |-> flag]} \cup
    (IF IsZeroVec(direct) THEN {}
     ELSE {[p |-> q, flag |-> f] :
             q \in {w \in {VAdd(origin, VScale(t, direct)) :
                              t \in StepLengths(direct)} :
                      check(w, constraints) /\ RLe(norm2(w), delta)},
             f \in {flag, "OUT_OF_TRUST_REGION"}})

\* ------------------------------------------------------- PCG inner solver
\* 1 / sqrt(eps) for float64: eps = 2^-52
SqrtEpsInv == 67108864

\* q < numpy.sqrt(_eps), for a rational q >= 0
BelowSqrtEps(q) == q[1] <= (q[2] - 1) \div SqrtEpsInv

\* the residual test left out
residual_converged_never(z) == FALSE

\* line 111
residual_converged(z) == BelowSqrtEps(MaxAbs(z))

\* line 117
negative_curvature(denom) == RLe(denom, RZero)

\* the trust-region test left out
out_of_trust_region_untested(pnew, delta) == FALSE

\* line 125
out_of_trust_region(pnew, delta) == RLt(delta, norm2(pnew))

\* line 130
violates_constraints(pnew, constraints) == ~check(pnew, constraints)

\* the for loop of _implimentation from iteration iter on, st the loop's
\* variables [p, r, z, direct, inner1]; completed records that the return
\* is the one after the loop (line 147)
RECURSIVE implLoop(_, _, _, _, _, _, _)
implLoop(g, H, R, constraints, delta, st, iter) ==
    IF iter = Len(g)
    THEN [p |-> st.p, direct |-> None, iter |-> Len(g) - 1,
          flag |-> "RESIDUAL_CONVERGENCE", completed |-> TRUE]
    ELSE IF residual_converged(st.z)
    THEN [p |-> st.p, direct |-> None, iter |-> iter,
          flag |-> "RESIDUAL_CONVERGENCE", completed |-> FALSE]
    ELSE
      LET ww == MatVec(H, st.direct)
          denom == Dot(st.direct, ww)
      IN  IF negative_curvature(denom)
          THEN [p |-> st.p, direct |-> st.direct, iter |-> iter,
                flag |-> "NEGATIVE_CURVATURE", completed |-> FALSE]
          ELSE
            LET alpha == RDiv(st.inner1, denom)
                pnew == VAdd(st.p, VScale(alpha, st.direct))
            IN  IF out_of_trust_region(pnew, delta)
                THEN [p |-> st.p, direct |-> st.direct, iter |-> iter,
                      flag |-> "OUT_OF_TRUST_REGION", completed |-> FALSE]
                ELSE IF violates_constraints(pnew, constraints)
                THEN [p |-> st.p, direct |-> st.direct, iter |-> iter,
                      flag |-> "VIOLATE_CONSTRAINTS", completed |-> FALSE]
                ELSE
                  LET r2 == VSub(st.r, VScale(alpha, ww))
                      z2 == VDivEl(r2, R)
                      inner2 == st.inner1
                      inner1 == Dot(r2, z2)
                      beta == RDiv(inner1, inner2)
                  IN  implLoop(g, H, R, constraints, delta,
                               [p |-> pnew, r |-> r2, z |-> z2,
                                direct |-> VAdd(z2, VScale(beta, st.direct)),
                                inner1 |-> inner1],
                               iter + 1)

\* _implimentation(g, H, R, constraints, delta) -> (p, direct, iter, flag)
implimentation(g, H, R, constraints, delta) ==
    LET r == VNeg(g)
        z == VDivEl(r, R)
    IN  implLoop(g, H, R, constraints, delta,
                 [p |-> Zeros(Len(g)), r |-> r, z |-> z, direct |-> z,
                  inner1 |-> Dot(r, z)],
                 0)

\* ------------------------------------------------------------ PCG wrapper
\* best_policy, lines 213-222: the PCG point, or its boundary follow-up sd2
\* when that is strictly better
follow_up(g, H, impl, sd2) ==
    LET fval1 == fval_model(g, H, impl.p)
    IN  IF impl.flag # "RESIDUAL_CONVERGENCE" /\ sd2.p # None
           /\ StrictlyBetter(fval_model(g, H, sd2.p), sd2.p, fval1, impl.p)
        THEN [p |-> sd2.p, fval |-> fval_model(g, H, sd2.p), exit |-> sd2.flag]
        ELSE [p |-> impl.p, fval |-> fval1, exit |-> impl.flag]

\* best_policy without its test for the all-zero step
select_policy_unguarded(g, H, sd0, c, iter) ==
    IF sd0.p # None
       /\ StrictlyBetter(fval_model(g, H, sd0.p), sd0.p, c.fval, c.p)
    THEN PCG_Status(sd0.p, fval_model(g, H, sd0.p), 0, sd0.flag)
    ELSE PCG_Status(c.p, c.fval, iter, c.exit)

\* best_policy, lines 223-230: the status built from the gradient probe sd0,
\* or from the candidate c = (p1, fval1, exit1)
select_policy(g, H, sd0, c, iter) ==
    IF sd0.p # None
       /\ StrictlyBetter(fval_model(g, H, sd0.p), sd0.p, c.fval, c.p)
    THEN PCG_Status(sd0.p, fval_model(g, H, sd0.p), 0, sd0.flag)
    ELSE IF IsZeroVec(c.p)
    THEN PCG_Status(None, None, iter, c.exit)
    ELSE PCG_Status(c.p, c.fval, iter, c.exit)

\* best_policy(g, H, R, constraints, delta): the set of its possible results
best_policy(g, H, R, constraints, delta) ==
    LET impl == implimentation(g, H, R, constraints, delta)
        sd0s == subspace_decay(g, H, Zeros(Len(g)), VDivEl(VNeg(g), R), delta,
                               constraints, "POLICY_ONLY")
        sd2s == IF impl.flag = "RESIDUAL_CONVERGENCE"
                THEN {[p |-> None, flag |-> impl.flag]}
                ELSE subspace_decay(g, H, impl.p, impl.direct, delta,
                                    constraints, impl.flag)
    IN  {select_policy(g, H, sd0, follow_up(g, H, impl, sd2), impl.iter) :
           sd0 \in sd0s, sd2 \in sd2s}

\* the comparison of the two model values reversed
pcg_select_reversed(ret1, ret2) ==
    IF ret1.x = None /\ ret2.x = None THEN ret1
    ELSE IF ret1.x = None THEN ret2
    ELSE IF ret2.x = None THEN ret1
    ELSE IF RLt(ret2.fval, ret1.fval)
            \/ (ret1.fval = ret2.fval /\ RLe(norm2(ret1.x), norm2(ret2.x)))
    THEN ret1
    ELSE ret2

\* pcg, lines 235-249: the better of the two best_policy results
pcg_select(ret1, ret2) ==
    IF ret1.x = None /\ ret2.x = None THEN ret1
    ELSE IF ret1.x = None THEN ret2
    ELSE IF ret2.x = None THEN ret1
    ELSE IF RLt(ret1.fval, ret2.fval)
            \/ (ret1.fval = ret2.fval /\ RLe(norm2(ret1.x), norm2(ret2.x)))
    THEN ret1
    ELSE ret2

\* pcg(g, H, constraints, delta): the set of its possible results
pcg(g, H, constraints, delta) ==
    {pcg_select(ret1, ret2) :
       ret1 \in UNION {best_policy(g, H, R, constraints, delta) :
                         R \in hessian_precon(H)},
       ret2 \in UNION {best_policy(g, H, R, constraints, delta) :
                         R \in gradient_precon(g)}}

\* ---------------------------------------------------- trust-region driver
\* the driver runs in one dimension: x = <<x1>>, A has one row
\* objective o = [a, c, k, gc]: f(x) = a (x1 - c)^2 + k x1^3, with the
\* caller's gradient callable 2 a (x1 - gc) + 3 k x1^2 (the derivative of f
\* when gc = c)
Objectives ==
    {[a |-> 1, c |-> 0, k |-> 0, gc |-> 0],
     [a |-> 1, c |-> 1, k |-> 0, gc |-> 1],
     [a |-> -1, c |-> 1, k |-> 0, gc |-> 1],
     [a |-> 0, c |-> 0, k |-> 0, gc |-> 0],
     [a |-> 0, c |-> 0, k |-> 1, gc |-> 0],
     [a |-> 1, c |-> 0, k |-> 0, gc |-> 1],
     [a |-> 1, c |-> 1, k |-> 0, gc |-> 0]}

objective(o, x) ==
    LET d == RSub(x[1], RInt(o.c))
    IN  RAdd(RMul(RInt(o.a), RMul(d, d)),
             RMul(RInt(o.k), RMul(x[1], RMul(x[1], x[1]))))

\* the gradient callable
gradient(o, x) ==
    <<RAdd(RMul(RInt(2 * o.a), RSub(x[1], RInt(o.gc))),
           RMul(RInt(3 * o.k), RMul(x[1], x[1])))>>

\* make_gradient(gradient, x, ...): the Gradient bundle (value, infnorm)
make_gradient(o, x) ==
    [value |-> gradient(o, x), infnorm |-> MaxAbs(gradient(o, x))]

\* make_hessian(gradient, x, ...): the derivative of the gradient
make_hessian(o, x) ==
    <<<<RAdd(RInt(2 * o.a), RMul(RInt(6 * o.k), x[1]))>>>>

\* make_hess leaving hessian_is_up_to_date as it was (false, by its assertion)
make_hess_flag_unset(o, x) ==
    [H |-> make_hessian(o, x), hessian_is_up_to_date |-> FALSE,
     times_after_hessian_shaking |-> 0]

\* make_hess(x), lines 121-127: the Hessian at x, with the values it leaves
\* in hessian_is_up_to_date and times_after_hessian_shaking
make_hess(o, x) ==
    [H |-> make_hessian(o, x), hessian_is_up_to_date |-> TRUE,
     times_after_hessian_shaking |-> 0]

\* the constraints handed on as they are
shift_constraints_absent(c, x) == c

\* get_info, lines 117-118: the constraints shifted to x
shift_constraints(c, x) ==
    [A |-> c.A, b |-> VSub(c.b, MatVec(c.A, x)),
     lb |-> VSub(c.lb, x), ub |-> VSub(c.ub, x)]

\* the constraint bundles (A, b, lb, ub) of the runs
Constraints ==
    {[A |-> <<IntVec(<<0>>)>>, b |-> IntVec(<<0>>),
      lb |-> IntVec(<<0>>), ub |-> IntVec(<<GridMax>>)],
     [A |-> <<IntVec(<<1>>)>>, b |-> IntVec(<<GridMax - 1>>),
      lb |-> IntVec(<<0>>), ub |-> IntVec(<<GridMax>>)]}

\* options.Trust_Region_Options: the option bundles of the runs
\* (abstol_fval, max_stall_iter) pairs
\* (max_stall_iter is None or <<k>>)
StallOptions == {<<None, None>>, <<RInt(6), <<1>>>>, <<RInt(6), <<2>>>>}

\* opts.shaking: the literal "x.shape[0]" (auto) or an integer k
Shakings == {[auto |-> TRUE, k |-> 0], [auto |-> FALSE, k |-> 2]}

Options ==
    {[max_iter |-> mi, tol_step |-> ts, tol_grad |-> tg,
      abstol_fval |-> so[1], max_stall_iter |-> so[2],
      init_delta |-> RInt(d), shaking |-> sh] :
       mi \in -2..MaxIterBound, ts \in {<<1, 8>>, RInt(2)},
       tg \in {ROne, RInt(3)},
       so \in StallOptions, d \in {2}, sh \in Shakings}

\* trust_region, lines 96-98
hessian_shaking_of(opts, x) ==
    IF opts.shaking.auto THEN Len(x) ELSE opts.shaking.k

VARIABLES
    objective_fn, constraints, opts,        \* the arguments of trust_region
    x, fval, grad, H, delta, iter,          \* the iterate state
    hessian_is_up_to_date, times_after_hessian_shaking,
    old_fval, stall_iter, constr_shifted, pcg_status,
    pc,                                     \* position in trust_region
    result,                                 \* the Trust_Region_Result, with
                                            \* the return taken (via)
    emitted,                                \* the last options.output call
    H_at,                                   \* the x that H was computed at
    prev_fval,                              \* fval before the last pass
    n_pcg,                                  \* pcg calls so far
    n_obj, n_hess,                          \* objective and make_hessian
                                            \* calls of the current pass
    hess_assert_ok,                         \* make_hess's assertion held
    pcg_since_refresh,                      \* pcg calls and accepted steps
    accepted_since_refresh,                 \* since the last make_hess call
    pin,                                    \* the arguments of a pcg call
    pstage,                                 \* position in pcg
    pR, pimpl,                              \* best_policy's R and its
                                            \* _implimentation result
    pret1, pret2, pout,                     \* pcg's ret1, ret2 and result
    rin, rout                               \* the operands of a ratio
                                            \* computation and its result

vars ==
    <<objective_fn, constraints, opts, x, fval, grad, H, delta, iter,
      hessian_is_up_to_date, times_after_hessian_shaking, old_fval,
      stall_iter, constr_shifted, pcg_status, pc, result, emitted, H_at,
      prev_fval, n_pcg, n_obj, n_hess, hess_assert_ok, pcg_since_refresh,
      accepted_since_refresh, pin, pstage, pR, pimpl, pret1, pret2, pout,
      rin, rout>>

drivervars ==
    <<objective_fn, constraints, opts, x, fval, grad, H, delta, iter,
      hessian_is_up_to_date, times_after_hessian_shaking, old_fval,
      stall_iter, constr_shifted, pcg_status, pc, result, emitted, H_at,
      prev_fval, n_pcg, n_obj, n_hess, hess_assert_ok, pcg_since_refresh,
      accepted_since_refresh>>

pcgvars == <<pin, pstage, pR, pimpl, pret1, pret2, pout>>

ratiovars == <<rin, rout>>

args == <<objective_fn, constraints, opts>>

hessian_shaking == hessian_shaking_of(opts, x)

\* options.output(iter, fval, grad.infnorm, pcg_status, H, opts, times), with
\* the iterate it is about
Emission(it, xx, fv, g, st) ==
    [iter |-> it, x |-> xx, fval |-> fv, infnorm |-> g.infnorm,
     pcg_status |-> st]

\* before the first pcg call there is no PCG status
NoStatus == [x |-> None, fval |-> None, iter |-> 0, flag |-> "NONE",
             size |-> None]

Trust_Region_Result(xx, it, d, g, success, via) ==
    [x |-> xx, iter |-> it, delta |-> d, gradient |-> g, success |-> success,
     via |-> via]

\* no pcg call is being followed
NoImpl ==
    [p |-> None, direct |-> None, iter |-> 0, flag |-> "NONE",
     completed |-> FALSE]

\* no ratio computation is being followed
NoRatio == [branch |-> "none", divisor |-> None, ratio |-> RZero]

RatioIdle ==
    /\ rin = [reduce |-> RZero, fval |-> RZero]
    /\ rout = NoRatio

PcgIdle ==
    /\ pin = [g |-> None, H |-> None, constraints |-> None, delta |-> RZero]
    /\ pstage = "idle"
    /\ pR = None
    /\ pimpl = NoImpl
    /\ pret1 = NoStatus
    /\ pret2 = NoStatus
    /\ pout = NoStatus

\* lines 129-144: the state at the first loop head
Init ==
    /\ objective_fn \in Objectives
    /\ constraints \in Constraints
    /\ opts \in Options
    /\ x \in {v \in IntVectors(1, 0..GridMax) : check(v, constraints)}
    /\ iter = 0
    /\ delta = opts.init_delta
    /\ fval = objective(objective_fn, x)
    /\ grad = make_gradient(objective_fn, x)
    /\ constr_shifted = shift_constraints(constraints, x)
    /\ H = make_hess(objective_fn, x).H
    /\ H_at = x
    /\ hessian_is_up_to_date = make_hess(objective_fn, x).hessian_is_up_to_date
    /\ times_after_hessian_shaking =
          make_hess(objective_fn, x).times_after_hessian_shaking
    /\ emitted = Emission(0, x, fval, grad, NoStatus)
    /\ old_fval = fval
    /\ prev_fval = fval
    /\ stall_iter = 0
    /\ pcg_status = NoStatus
    /\ pc = "head"
    /\ result = Trust_Region_Result(x, 0, delta, grad, FALSE, "running")
    /\ n_pcg = 0
    /\ n_obj = 0
    /\ n_hess = 0
    /\ hess_assert_ok = TRUE
    /\ pcg_since_refresh = 0
    /\ accepted_since_refresh = 0
    /\ PcgIdle
    /\ RatioIdle

\* line 147
radius_too_small(d, tol_step) == RLt(d, tol_step)

\* the cap tested one iteration late
iter_cap_hit_late(it, max_iter) == it > max_iter + 1

\* the cap tested one iteration early
iter_cap_hit_early(it, max_iter) == it >= max_iter

\* line 151
iter_cap_hit(it, max_iter) == it > max_iter

Return(success, via) ==
    /\ result' = Trust_Region_Result(x, iter, delta, grad, success, via)
    /\ pc' = "done"
    /\ UNCHANGED <<args, x, fval, grad, H, delta, iter,
                   hessian_is_up_to_date, times_after_hessian_shaking,
                   old_fval, stall_iter, constr_shifted, pcg_status, emitted,
                   H_at, prev_fval, n_pcg, n_obj, n_hess, hess_assert_ok,
                   pcg_since_refresh, accepted_since_refresh, pcgvars,
                   ratiovars>>

\* lines 147-150
ReturnRadius ==
    /\ pc = "head"
    /\ radius_too_small(delta, opts.tol_step)
    /\ Return(FALSE, "tol_step")

\* lines 151-154
ReturnIterCap ==
    /\ pc = "head"
    /\ ~radius_too_small(delta, opts.tol_step)
    /\ iter_cap_hit(iter, opts.max_iter)
    /\ Return(FALSE, "max_iter")

\* the deferred refresh decided on the counter alone
refresh_due_unguarded(times, shaking, up_to_date) == times >= shaking

\* the deferred refresh one pcg call late
refresh_due_late(times, shaking, up_to_date) ==
    times > shaking /\ ~up_to_date

\* line 156
refresh_due(times, shaking, up_to_date) == times >= shaking /\ ~up_to_date

\* the increment of line 162 left out
counter_after_call_skipped(times) == times

\* line 162: times_after_hessian_shaking += 1
counter_after_call(times) == times + 1

\* lines 156-162: the deferred Hessian refresh and the pcg call
CallPcg ==
    /\ pc = "head"
    /\ ~radius_too_small(delta, opts.tol_step)
    /\ ~iter_cap_hit(iter, opts.max_iter)
    /\ \E due \in {refresh_due(times_after_hessian_shaking, hessian_shaking,
                              hessian_is_up_to_date)} :
       \E mh \in {make_hess(objective_fn, x)} :
       \E H1 \in {IF due THEN mh.H ELSE H} :
           /\ H' = H1
           /\ H_at' = IF due THEN x ELSE H_at
           /\ hessian_is_up_to_date' =
                 IF due THEN mh.hessian_is_up_to_date
                 ELSE hessian_is_up_to_date
           /\ hess_assert_ok' =
                 (hess_assert_ok /\ (due => ~hessian_is_up_to_date))
           /\ times_after_hessian_shaking' =
                 counter_after_call(IF due
                                    THEN mh.times_after_hessian_shaking
                                    ELSE times_after_hessian_shaking)
           /\ n_hess' = IF due THEN 1 ELSE 0
           /\ pcg_since_refresh' = (IF due THEN 0 ELSE pcg_since_refresh) + 1
           /\ accepted_since_refresh' =
                 IF due THEN 0 ELSE accepted_since_refresh
           /\ pcg_status' \in pcg(grad.value, H1, constr_shifted, delta)
    /\ iter' = iter + 1
    /\ n_pcg' = n_pcg + 1
    /\ n_obj' = 0
    /\ prev_fval' = fval
    /\ pc' = "after_pcg"
    /\ UNCHANGED <<args, x, fval, grad, delta, old_fval, stall_iter,
                   constr_shifted, result, emitted, pcgvars, ratiovars>>

\* the radius shrunk whatever the state of the Hessian
shrink_allowed_always(up_to_date) == TRUE

\* lines 165 and 197: the radius is shrunk only on an up-to-date Hessian,
\* a stale one is recomputed instead
shrink_allowed(up_to_date) == up_to_date

\* line 178 skipped: control falls through to the stall check
after_no_step_falls_through == "check_stall"

\* line 178: continue
after_no_step == "head"

\* the counter left alone by the refresh of the no-step branch
no_step_counter_kept(mh, times) == times

\* lines 167 and 126: the counter after the make_hess of the no-step branch
no_step_counter(mh, times) == mh.times_after_hessian_shaking

\* lines 164-178: pcg produced no step
NoStep ==
    /\ pc = "after_pcg"
    /\ pcg_status.x = None
    /\ IF shrink_allowed(hessian_is_up_to_date)
       THEN /\ delta' = RDiv(delta, RInt(4))
            /\ UNCHANGED <<H, H_at, hessian_is_up_to_date,
                           times_after_hessian_shaking, n_hess,
                           hess_assert_ok, pcg_since_refresh,
                           accepted_since_refresh>>
       ELSE /\ H' = make_hess(objective_fn, x).H
            /\ H_at' = x
            /\ hessian_is_up_to_date' =
                  make_hess(objective_fn, x).hessian_is_up_to_date
            /\ times_after_hessian_shaking' =
                  no_step_counter(make_hess(objective_fn, x),
                                  times_after_hessian_shaking)
            /\ n_hess' = n_hess + 1
            /\ hess_assert_ok' = (hess_assert_ok /\ ~hessian_is_up_to_date)
            /\ pcg_since_refresh' = 0
            /\ accepted_since_refresh' = 0
            /\ UNCHANGED delta
    /\ emitted' = Emission(iter, x, fval, grad, pcg_status)
    /\ pc' = after_no_step
    /\ UNCHANGED <<args, x, fval, grad, iter, old_fval, stall_iter,
                   constr_shifted, pcg_status, result, prev_fval, n_pcg,
                   n_obj, pcgvars, ratiovars>>

\* the second comparison of the ratio turned round
ratio_branch_reversed(reduce, predicted) ==
    IF RLe(RZero, reduce) THEN "zero"
    ELSE IF RLe(predicted, reduce) THEN "one"
    ELSE "divide"

\* lines 189-193: which arm of the conditional expression is evaluated
ratio_branch(reduce, predicted) ==
    IF RLe(RZero, reduce) THEN "zero"
    ELSE IF RLe(reduce, predicted) THEN "one"
    ELSE "divide"

\* lines 189-193
ratio_of(reduce, predicted) ==
    CASE ratio_branch(reduce, predicted) = "zero" -> RZero
      [] ratio_branch(reduce, predicted) = "one" -> ROne
      [] ratio_branch(reduce, predicted) = "divide" ->
            RDiv(reduce, predicted)

\* line 194
radius_grows(ratio, size, d) ==
    RLe(<<3, 4>>, ratio) /\ RLe(RMul(<<9, 10>>, d), size)

\* line 196
ratio_is_poor(ratio) == RLe(ratio, <<1, 4>>)

\* every candidate accepted
accepts_always(new_fval, old) == TRUE

\* line 203
accepts(new_fval, old) == RLt(new_fval, old)

\* the stall detector measuring from the previous iterate: old_fval is
\* moved on at a stall too
stall_update_per_iteration(abstol, old, fv, stalls) ==
    IF abstol # None /\ RLt(RSub(old, fv), abstol)
    THEN <<fv, stalls + 1>>
    ELSE <<fv, 0>>

\* lines 206-209: (old_fval, stall_iter) after an accepted step to fv
stall_update(abstol, old, fv, stalls) ==
    IF abstol # None /\ RLt(RSub(old, fv), abstol)
    THEN <<old, stalls + 1>>
    ELSE <<fv, 0>>

\* the flag left as it is when the candidate is accepted
flag_after_step_kept(accept, refresh, mh, up_to_date) ==
    IF refresh THEN mh.hessian_is_up_to_date ELSE up_to_date

\* lines 196-204: hessian_is_up_to_date after the radius update (mh the
\* result of make_hess, called when refresh) and the acceptance
flag_after_step(accept, refresh, mh, up_to_date) ==
    IF accept THEN FALSE
    ELSE IF refresh THEN mh.hessian_is_up_to_date
    ELSE up_to_date

\* lines 180-213: the candidate, the radius update and the acceptance
Evaluate ==
    /\ pc = "after_pcg"
    /\ pcg_status.x # None
    /\ \E new_x \in {VAdd(x, pcg_status.x)} :
       \E new_fval \in {objective(objective_fn, new_x)} :
       \E reduce \in {RSub(new_fval, fval)} :
       \E ratio \in {ratio_of(reduce, pcg_status.fval)} :
       \E grows \in {radius_grows(ratio, pcg_status.size, delta)} :
       \E poor \in {~grows /\ ratio_is_poor(ratio)} :
       \E shrink \in {poor /\ shrink_allowed(hessian_is_up_to_date)} :
       \E refresh \in {poor /\ ~shrink} :
       \E accept \in {accepts(new_fval, fval)} :
       \E stall \in {stall_update(opts.abstol_fval, old_fval, new_fval,
                                 stall_iter)} :
       \E mh \in {make_hess(objective_fn, x)} :
           /\ delta' = IF grows THEN RMul(delta, RInt(2))
                       ELSE IF shrink
                       THEN RDiv(pcg_status.size, RInt(4))
                       ELSE delta
           /\ H' = IF refresh THEN mh.H ELSE H
           /\ H_at' = IF refresh THEN x ELSE H_at
           /\ times_after_hessian_shaking' =
                 IF refresh THEN mh.times_after_hessian_shaking
                 ELSE times_after_hessian_shaking
           /\ n_hess' = IF refresh THEN n_hess + 1 ELSE n_hess
           /\ pcg_since_refresh' = IF refresh THEN 0 ELSE pcg_since_refresh
           /\ accepted_since_refresh' =
                 (IF refresh THEN 0 ELSE accepted_since_refresh)
                 + (IF accept THEN 1 ELSE 0)
           /\ n_obj' = n_obj + 1
           /\ IF accept
              THEN /\ x' = new_x
                   /\ fval' = new_fval
                   /\ grad' = make_gradient(objective_fn, new_x)
                   /\ constr_shifted' = shift_constraints(constraints, new_x)
                   /\ old_fval' = stall[1]
                   /\ stall_iter' = stall[2]
              ELSE UNCHANGED <<x, fval, grad, constr_shifted, old_fval,
                               stall_iter>>
           /\ hessian_is_up_to_date' =
                 flag_after_step(accept, refresh, mh, hessian_is_up_to_date)
           /\ hess_assert_ok' =
                 (hess_assert_ok /\ (refresh => ~hessian_is_up_to_date))
           /\ emitted' = Emission(iter, x', fval', grad', pcg_status)
    /\ pc' = "check_rc"
    /\ UNCHANGED <<args, iter, pcg_status, result, prev_fval, n_pcg,
                   pcgvars, ratiovars>>

\* success declared whatever the state of the Hessian
may_succeed_unchecked(up_to_date) == TRUE

\* lines 217, 226: success is declared on an up-to-date Hessian only
may_succeed(up_to_date) == up_to_date

\* line 216
pcg_converged(status) == status.flag = "RESIDUAL_CONVERGENCE"

\* lines 216-219
ReturnSmallGrad ==
    /\ pc = "check_rc"
    /\ pcg_converged(pcg_status)
    /\ may_succeed(hessian_is_up_to_date)
    /\ RLt(grad.infnorm, opts.tol_grad)
    /\ Return(TRUE, "tol_grad")

\* lines 220-221
ReturnSmallStep ==
    /\ pc = "check_rc"
    /\ pcg_converged(pcg_status)
    /\ may_succeed(hessian_is_up_to_date)
    /\ ~RLt(grad.infnorm, opts.tol_grad)
    /\ RLt(pcg_status.size, opts.tol_step)
    /\ Return(TRUE, "small_step")

\* a make_hess(x) call of the success checks, on to position next
RefreshAndGo(next) ==
    /\ H' = make_hess(objective_fn, x).H
    /\ H_at' = x
    /\ hessian_is_up_to_date' =
          make_hess(objective_fn, x).hessian_is_up_to_date
    /\ times_after_hessian_shaking' =
          make_hess(objective_fn, x).times_after_hessian_shaking
    /\ n_hess' = n_hess + 1
    /\ hess_assert_ok' = (hess_assert_ok /\ ~hessian_is_up_to_date)
    /\ pcg_since_refresh' = 0
    /\ accepted_since_refresh' = 0
    /\ pc' = next
    /\ UNCHANGED <<args, x, fval, grad, delta, iter, old_fval, stall_iter,
                   constr_shifted, pcg_status, result, emitted, prev_fval,
                   n_pcg, n_obj, pcgvars, ratiovars>>

Go(next) ==
    /\ pc' = next
    /\ UNCHANGED <<args, x, fval, grad, H, delta, iter,
                   hessian_is_up_to_date, times_after_hessian_shaking,
                   old_fval, stall_iter, constr_shifted, pcg_status, result,
                   emitted, H_at, prev_fval, n_pcg, n_obj, n_hess,
                   hess_assert_ok, pcg_since_refresh, accepted_since_refresh,
                   pcgvars, ratiovars>>

\* lines 222-223
ConvergedRefresh ==
    /\ pc = "check_rc"
    /\ pcg_converged(pcg_status)
    /\ ~may_succeed(hessian_is_up_to_date)
    /\ RefreshAndGo("check_stall")

\* lines 216-221 falling through to line 225
ConvergedContinue ==
    /\ pc = "check_rc"
    /\ \/ ~pcg_converged(pcg_status)
       \/ /\ may_succeed(hessian_is_up_to_date)
          /\ ~RLt(grad.infnorm, opts.tol_grad)
          /\ ~RLt(pcg_status.size, opts.tol_step)
    /\ Go("check_stall")

\* line 225
stalled(max_stall_iter, stalls) ==
    max_stall_iter # None /\ stalls >= max_stall_iter[1]

\* lines 225-227
ReturnStall ==
    /\ pc = "check_stall"
    /\ stalled(opts.max_stall_iter, stall_iter)
    /\ may_succeed(hessian_is_up_to_date)
    /\ Return(TRUE, "stall")

\* lines 228-229
StallRefresh ==
    /\ pc = "check_stall"
    /\ stalled(opts.max_stall_iter, stall_iter)
    /\ ~may_succeed(hessian_is_up_to_date)
    /\ RefreshAndGo("head")

\* line 225 false: back to the loop head
NextIteration ==
    /\ pc = "check_stall"
    /\ ~stalled(opts.max_stall_iter, stall_iter)
    /\ Go("head")

Next ==
    \/ ReturnRadius
    \/ ReturnIterCap
    \/ CallPcg
    \/ NoStep
    \/ Evaluate
    \/ ReturnSmallGrad
    \/ ReturnSmallStep
    \/ ConvergedRefresh
    \/ ConvergedContinue
    \/ ReturnStall
    \/ StallRefresh
    \/ NextIteration

Spec == Init /\ [][Next]_vars

\* trust_region is one synchronous call: until it returns, control moves on
\* to another of its positions. Every step of Next changes pc, so within
\* Spec the steps of Advance are the steps of Next.
Advance ==
    /\ pc # "done"
    /\ pc' \in {"head", "after_pcg", "check_rc", "check_stall", "done"}
    /\ pc' # pc

FairSpec == Spec /\ WF_pc(Advance)

\* the guards of the actions at the position of control: some step of Next
\* can be taken (at the loop head, when neither return is due, provided the
\* pcg call returns)
CanStep ==
    \/ /\ pc = "head"
       /\ \/ radius_too_small(delta, opts.tol_step)
          \/ iter_cap_hit(iter, opts.max_iter)
          \/ pcg(grad.value,
                 IF refresh_due(times_after_hessian_shaking, hessian_shaking,
                                hessian_is_up_to_date)
                 THEN make_hess(objective_fn, x).H ELSE H,
                 constr_shifted, delta) # {}
    \/ /\ pc = "after_pcg"
       /\ pcg_status.x = None \/ pcg_status.x # None
    \/ /\ pc = "check_rc"
       /\ \/ ~pcg_converged(pcg_status)
          \/ ~may_succeed(hessian_is_up_to_date)
          \/ RLt(grad.infnorm, opts.tol_grad)
          \/ RLt(pcg_status.size, opts.tol_step)
          \/ /\ ~RLt(grad.infnorm, opts.tol_grad)
             /\ ~RLt(pcg_status.size, opts.tol_step)
    \/ /\ pc = "check_stall"
       /\ \/ ~stalled(opts.max_stall_iter, stall_iter)
          \/ may_succeed(hessian_is_up_to_date)
          \/ ~may_succeed(hessian_is_up_to_date)

\* ------------------------------------------------------- pcg, call by call
\* the arguments (g, H, constraints, delta) of the pcg calls followed, in
\* dimensions 1 and 2
PcgHessians(n) ==
    IF n = 1 THEN {<<IntVec(<<h>>)>> : h \in {-1, 1, 2}}
    ELSE {<<IntVec(<<d1, o1>>), IntVec(<<o2, d2>>)>> :
            d1 \in {1, 2}, d2 \in {-1, 2}, o1 \in {0, 1}, o2 \in {0, 1}}

Ones(n) == [i \in 1..n |-> ROne]

\* a box with no linear constraint, a box cut by sum(p) <= 1, and a box
\* that leaves the zero step out
PcgConstraints(n) ==
    {[A |-> <<Zeros(n)>>, b |-> <<RZero>>,
      lb |-> VScale(RInt(-3), Ones(n)), ub |-> VScale(RInt(3), Ones(n))],
     [A |-> <<Ones(n)>>, b |-> <<ROne>>,
      lb |-> VNeg(Ones(n)), ub |-> Ones(n)],
     [A |-> <<Zeros(n)>>, b |-> <<RZero>>,
      lb |-> Ones(n), ub |-> VScale(RInt(3), Ones(n))]}

PcgInputs ==
    UNION {{[g |-> g, H |-> HH, constraints |-> c, delta |-> RInt(d)] :
              g \in IntVectors(n, {-1, 1}) \cup {Zeros(n)},
              HH \in PcgHessians(n),
              c \in PcgConstraints(n), d \in {1, 2}} : n \in {1, 2}}

\* no trust_region call is being followed
DriverIdle ==
    /\ objective_fn = [a |-> 0, c |-> 0, k |-> 0, gc |-> 0]
    /\ constraints = None
    /\ opts = None
    /\ x = None
    /\ fval = RZero
    /\ grad = [value |-> None, infnorm |-> RZero]
    /\ H = None
    /\ H_at = None
    /\ delta = RZero
    /\ iter = 0
    /\ hessian_is_up_to_date = FALSE
    /\ times_after_hessian_shaking = 0
    /\ old_fval = RZero
    /\ prev_fval = RZero
    /\ stall_iter = 0
    /\ constr_shifted = None
    /\ pcg_status = NoStatus
    /\ pc = "idle"
    /\ result = Trust_Region_Result(None, 0, RZero, None, FALSE, "idle")
    /\ emitted = Emission(0, None, RZero, [infnorm |-> RZero], NoStatus)
    /\ n_pcg = 0
    /\ n_obj = 0
    /\ n_hess = 0
    /\ hess_assert_ok = TRUE
    /\ pcg_since_refresh = 0
    /\ accepted_since_refresh = 0

PCGInit ==
    /\ DriverIdle
    /\ RatioIdle
    /\ pin \in PcgInputs
    /\ pstage = "policy1"
    /\ pR = None
    /\ pimpl = NoImpl
    /\ pret1 = NoStatus
    /\ pret2 = NoStatus
    /\ pout = NoStatus

\* lines 233, 234 and 212: best_policy is entered with the preconditioner R
\* and runs _implimentation
BestPolicyRun ==
    /\ pstage \in {"policy1", "policy2"}
    /\ pR' \in IF pstage = "policy1" THEN hessian_precon(pin.H)
               ELSE gradient_precon(pin.g)
    /\ pimpl' = implimentation(pin.g, pin.H, pR', pin.constraints, pin.delta)
    /\ pstage' = IF pstage = "policy1" THEN "combine1" ELSE "combine2"
    /\ UNCHANGED <<drivervars, ratiovars, pin, pret1, pret2, pout>>

\* lines 209-230: best_policy returns its status
BestPolicyReturn ==
    /\ pstage \in {"combine1", "combine2"}
    /\ \E ret \in best_policy(pin.g, pin.H, pR, pin.constraints, pin.delta) :
          IF pstage = "combine1"
          THEN pret1' = ret /\ pstage' = "policy2" /\ UNCHANGED pret2
          ELSE pret2' = ret /\ pstage' = "select" /\ UNCHANGED pret1
    /\ UNCHANGED <<drivervars, ratiovars, pin, pR, pimpl, pout>>

\* lines 235-249
PcgReturn ==
    /\ pstage = "select"
    /\ pout' = pcg_select(pret1, pret2)
    /\ pstage' = "done"
    /\ UNCHANGED <<drivervars, ratiovars, pin, pR, pimpl, pret1, pret2>>

PCGNext == BestPolicyRun \/ BestPolicyReturn \/ PcgReturn

PCGSpec == PCGInit /\ [][PCGNext]_vars

\* ------------------------------------------------------------- properties
\* ------------------------------------------- the ratio of lines 187-193
\* the ratio computation run on its own over pairs (reduce, pcg_status.fval)
\* of rationals n / d, |n| <= RatioMax, 1 <= d <= RatioDen
RatioValues == {Rat(n, d) : n \in -RatioMax..RatioMax, d \in 1..RatioDen}

RatioInputs == [reduce : RatioValues, fval : RatioValues]

RatioInit ==
    /\ DriverIdle
    /\ PcgIdle
    /\ rin \in RatioInputs
    /\ rout = NoRatio

\* lines 189-193: rout records the arm taken, the divisor of the division
\* when there is one, and the value of ratio
RatioCompute ==
    /\ rout = NoRatio
    /\ \E b \in {ratio_branch(rin.reduce, rin.fval)} :
          rout' = [branch |-> b,
                   divisor |-> IF b = "divide" THEN rin.fval ELSE None,
                   ratio |-> ratio_of(rin.reduce, rin.fval)]
    /\ UNCHANGED <<drivervars, pcgvars, rin>>

RatioNext == RatioCompute

RatioSpec == RatioInit /\ [][RatioNext]_vars

Done == pc = "done"

\* C1: a result with success = true is returned only while
\* hessian_is_up_to_date holds, and the Hessian in use is the one computed
\* at the returned x (through any of the three success returns).
C1_SuccessOnlyOnFreshHessian ==
    (Done /\ result.success) =>
        /\ hessian_is_up_to_date
        /\ H_at = result.x
        /\ H = make_hessian(objective_fn, result.x)
        /\ result.via \in {"tol_grad", "small_step", "stall"}

\* a success by stall declared right after the Hessian was refreshed for an
\* accepted step
C1_Witness ==
    Done /\ result.success /\ result.via = "stall" /\ RLt(fval, prev_fval)

\* C2: the iterate is feasible in the caller's constraints at every
\* emitted iteration and in the final result, and the shifted bundle in use
\* is the bundle shifted to the iterate.
C2_IterateFeasible ==
    pc # "idle" =>
        /\ check(x, constraints)
        /\ check(emitted.x, constraints)
        /\ constr_shifted = shift_constraints(constraints, x)
        /\ Done => check(result.x, constraints)

\* an accepted step that ends on the lower bound, after at least two passes
C2_Witness ==
    /\ pc = "check_rc"
    /\ iter >= 2
    /\ RLt(fval, prev_fval)
    /\ x = constraints.lb

\* before trust_region returns some step of Next can be taken: fairness on
\* Advance excludes no run that the code can make
NonBlocking == ~Done => CanStep

\* C4 (as amended): every run of trust_region returns, and no run calls pcg
\* more than max(max_iter + 1, 0) times.
C4_TerminatesWithinCap ==
    /\ [](n_pcg <= Max(opts.max_iter + 1, 0))
    /\ <>Done

\* a run that used all of its max_iter + 1 pcg calls
C4_Witness == Done /\ opts.max_iter = MaxIterBound /\ n_pcg = MaxIterBound + 1

\* C4 as stated: no run calls pcg more than max_iter + 1 times, for any
\* max_iter.
C4_Original == n_pcg <= opts.max_iter + 1

\* C5: for max_iter >= 0 a return through the iteration cap has
\* success = false and iter = max_iter + 1, and no return has
\* iter > max_iter + 1.
C5_IterCapResult ==
    (Done /\ opts.max_iter >= 0) =>
        /\ result.iter <= opts.max_iter + 1
        /\ result.via = "max_iter" =>
              ~result.success /\ result.iter = opts.max_iter + 1

\* the scenario of the specification: max_iter = 1 ends with iter = 2
C5_Witness ==
    /\ Done
    /\ result.via = "max_iter"
    /\ opts.max_iter = 1
    /\ result.iter = 2
    /\ ~result.success

\* C6: the trust radius is strictly positive at every loop head and after
\* every driver iteration, and every step pcg hands to the driver has a
\* strictly positive size.
C6_DeltaPositive ==
    pc # "idle" =>
        /\ RLt(RZero, delta)
        /\ pcg_status.x # None => RLt(RZero, pcg_status.size)

\* the radius was set to a quarter of the size of a poor step
C6_Witness ==
    /\ pc = "check_rc"
    /\ delta = RDiv(pcg_status.size, RInt(4))
    /\ RLt(delta, opts.init_delta)
    /\ ~RLt(fval, prev_fval)

\* C7: fval is objective(x) at every emitted iteration and at return; a
\* step of the driver either leaves x, fval and grad as they are or replaces
\* x by x + pcg_status.x and fval by the objective there, which is strictly
\* below the previous fval.
C7_ValueTracksIterate ==
    /\ [](pc # "idle" =>
            /\ fval = objective(objective_fn, x)
            /\ emitted.fval = objective(objective_fn, emitted.x)
            /\ Done => result.x = x)
    /\ [][\/ x' = x /\ fval' = fval /\ grad' = grad
          \/ /\ pc = "after_pcg"
             /\ pcg_status.x # None
             /\ x' = VAdd(x, pcg_status.x)
             /\ x' # x
             /\ fval' = objective(objective_fn, x')
             /\ RLt(fval', fval)]_vars

\* a second accepted step: x and fval were replaced together, and fval is
\* below the value of the last iteration that was no stall
C7_Witness ==
    /\ pc = "check_rc"
    /\ iter >= 2
    /\ RLt(fval, prev_fval)
    /\ RLt(fval, old_fval)
    /\ fval = objective(objective_fn, x)

\* C9 as stated: with abstol_fval set, an accepted iteration whose own
\* decrease fval - fval' is below abstol_fval increments stall_iter.
C9_Original ==
    [][(/\ opts.abstol_fval # None
        /\ x' # x
        /\ RLt(RSub(fval, fval'), opts.abstol_fval))
       => stall_iter' = stall_iter + 1]_vars

\* C9 (as amended): with abstol_fval set, an accepted iteration increments
\* stall_iter, leaving old_fval, when the decrease old_fval - fval' since the
\* last accepted iteration that was no stall is below abstol_fval; any
\* other accepted iteration resets stall_iter to 0 and old_fval to fval'.
C9_StallMeasuredFromOldFval ==
    [][x' # x =>
         IF opts.abstol_fval # None
            /\ RLt(RSub(old_fval, fval'), opts.abstol_fval)
         THEN stall_iter' = stall_iter + 1 /\ old_fval' = old_fval
         ELSE stall_iter' = 0 /\ old_fval' = fval']_vars

\* an accepted iteration that decreased the objective by less than
\* abstol_fval and reset the detector
C9_Witness ==
    /\ pc = "check_rc"
    /\ opts.abstol_fval # None
    /\ RLt(fval, prev_fval)
    /\ RLt(RSub(prev_fval, fval), opts.abstol_fval)
    /\ stall_iter = 0
    /\ old_fval = fval

C3_InnerStepAdmissible ==
    (pstage \in {"combine1", "combine2"}
     /\ check(Zeros(Len(pin.g)), pin.constraints)) =>
        /\ RLe(norm2(pimpl.p), pin.delta)
        /\ check(pimpl.p, pin.constraints)
        /\ pimpl.flag \in PCG_Flag \ {"POLICY_ONLY"}

\* a first trial point was taken and the second left the trust region
C3_Witness ==
    /\ pstage \in {"combine1", "combine2"}
    /\ check(Zeros(Len(pin.g)), pin.constraints)
    /\ pimpl.flag = "OUT_OF_TRUST_REGION"
    /\ pimpl.iter = 1
    /\ ~IsZeroVec(pimpl.p)

\* a is at least as good as b in the order on (fval, norm2(x)) that ranks a
\* status without step below every step
AsGoodAs(a, b) ==
    \/ b.x = None
    \/ /\ a.x # None
       /\ \/ RLt(a.fval, b.fval)
          \/ a.fval = b.fval /\ RLe(norm2(a.x), norm2(b.x))

\* C8: pcg returns one of the two best_policy results that is minimal in
\* the order on (fval, norm2(x)); it has no step only when both have none;
\* x, fval and size are all present or all absent.
C8_PcgReturnsBest ==
    pstage = "done" =>
        /\ pout \in {pret1, pret2}
        /\ AsGoodAs(pout, pret1)
        /\ AsGoodAs(pout, pret2)
        /\ pout.x = None => (pret1.x = None /\ pret2.x = None)
        /\ (pout.x = None) = (pout.fval = None)
        /\ (pout.x = None) = (pout.size = None)

\* both results carry a step and the second is strictly better
C8_Witness ==
    /\ pstage = "done"
    /\ pret1.x # None
    /\ pret2.x # None
    /\ RLt(pret2.fval, pret1.fval)
    /\ pout = pret2

\* M (1 x 1 or 2 x 2) is positive definite: d M d > 0 for every d # 0
PositiveDefinite(M) ==
    IF Len(M) = 1 THEN RLt(RZero, M[1][1])
    ELSE LET off == RAdd(M[1][2], M[2][1])
         IN  /\ RLt(RZero, M[1][1])
             /\ RLt(RMul(off, off), RMul(RInt(4), RMul(M[1][1], M[2][2])))

\* C11: called with the zero gradient, a positive R, delta > 0 and a
\* positive-definite H, _implimentation returns p = 0, no direction,
\* iteration count 0 and RESIDUAL_CONVERGENCE.
C11_ZeroGradient ==
    (/\ pstage \in {"combine1", "combine2"}
     /\ IsZeroVec(pin.g)
     /\ PositiveDefinite(pin.H)) =>
        /\ pimpl.p = Zeros(Len(pin.g))
        /\ pimpl.direct = None
        /\ pimpl.iter = 0
        /\ pimpl.flag = "RESIDUAL_CONVERGENCE"

\* the zero gradient in dimension 2 with a positive-definite H that is not
\* diagonal and a preconditioner that is not all ones
C11_Witness ==
    /\ pstage = "combine1"
    /\ pin.g = Zeros(2)
    /\ PositiveDefinite(pin.H)
    /\ pin.H[1][2] # RZero
    /\ pR # Ones(2)
    /\ pimpl.flag = "RESIDUAL_CONVERGENCE"
    /\ pimpl.iter = 0

\* C17: when _implimentation completes all n loop iterations without an
\* early exit, it returns (p, none, n, RESIDUAL_CONVERGENCE).
C17_CompletedLoopCount ==
    (pstage \in {"combine1", "combine2"} /\ pimpl.completed) =>
        /\ pimpl.direct = None
        /\ pimpl.flag = "RESIDUAL_CONVERGENCE"
        /\ pimpl.iter = Len(pin.g)

PoorRatioStep ==
    /\ pc = "after_pcg"
    /\ pcg_status.x # None
    /\ LET reduce == RSub(objective(objective_fn, VAdd(x, pcg_status.x)),
                          fval)
           ratio == ratio_of(reduce, pcg_status.fval)
       IN ~radius_grows(ratio, pcg_status.size, delta)
          /\ ratio_is_poor(ratio)

\* C13: refresh-instead-of-shrink. A step of the driver decreases delta
\* only from a state whose hessian_is_up_to_date is true; a step taken on a
\* stale Hessian in which pcg returned no step, or the ratio is <= 0.25,
\* leaves delta unchanged and recomputes H at the x of that iteration.
C13_RefreshInsteadOfShrink ==
    [][/\ RLt(delta', delta) => hessian_is_up_to_date
       /\ ( /\ pc = "after_pcg"
            /\ ~hessian_is_up_to_date
            /\ (pcg_status.x = None \/ PoorRatioStep) )
          => /\ delta' = delta
             /\ H_at' = x
             /\ H' = make_hessian(objective_fn, x)]_vars

\* a stale Hessian met a ratio <= 0.25: the radius is the one of the call
\* and H has just been recomputed at the x the step started from
C13_Witness ==
    /\ pc = "check_rc"
    /\ pcg_since_refresh = 0
    /\ pcg_status.x # None
    /\ n_hess = 1
    /\ hess_assert_ok
    /\ H_at = x
    /\ hessian_is_up_to_date

\* C14: bounded staleness. pcg is invoked between the deferred refresh of
\* lines 156-157 and the increment of line 162; at that point either
\* hessian_is_up_to_date is true or times_after_hessian_shaking is below
\* hessian_shaking, and a stale H has served fewer than hessian_shaking
\* earlier pcg invocations. (After the call the counter is one more.)
C14_BoundedStaleness ==
    (pc = "after_pcg" /\ ~hessian_is_up_to_date) =>
       /\ times_after_hessian_shaking - 1 < hessian_shaking
       /\ pcg_since_refresh - 1 < hessian_shaking

\* a stale Hessian passed to pcg for the last time the bound allows
C14_Witness ==
    /\ pc = "after_pcg"
    /\ ~hessian_is_up_to_date
    /\ H_at # x
    /\ times_after_hessian_shaking = hessian_shaking
    /\ pcg_status.x # None

\* the no-step branch is taken on a stale Hessian
StaleNoStep ==
    pc = "after_pcg" /\ pcg_status.x = None /\ ~hessian_is_up_to_date

\* C15 as stated: the no-step branch on a stale Hessian recomputes H at the
\* current x and leaves times_after_hessian_shaking at the value it had
\* after the increment that follows the pcg call.
C15_Original ==
    [][StaleNoStep =>
         /\ H' = make_hessian(objective_fn, x)
         /\ times_after_hessian_shaking' = times_after_hessian_shaking]_vars

\* C15 (as amended): the no-step branch on a stale Hessian recomputes H at
\* the current x through make_hess, which sets hessian_is_up_to_date and
\* resets times_after_hessian_shaking to 0, whatever value the increment
\* after the pcg call had left; x, fval and delta are unchanged.
C15_NoStepRefreshResetsCounter ==
    [][StaleNoStep =>
         /\ H' = make_hessian(objective_fn, x)
         /\ H_at' = x
         /\ hessian_is_up_to_date'
         /\ times_after_hessian_shaking' = 0
         /\ times_after_hessian_shaking >= 1
         /\ UNCHANGED <<x, fval, delta>>]_vars

\* the loop head reached from the no-step branch on a stale Hessian: the
\* Hessian is fresh and the counter is 0 although pcg has been called
C15_Witness ==
    /\ pc = "head"
    /\ iter >= 2
    /\ pcg_status.x = None
    /\ pcg_since_refresh = 0
    /\ times_after_hessian_shaking = 0
    /\ hessian_is_up_to_date

\* C16 as stated: at every loop head times_after_hessian_shaking is a
\* non-negative integer equal to the number of accepted iterations since
\* the last Hessian refresh.
C16_Original ==
    pc = "head" =>
       /\ times_after_hessian_shaking \in Nat
       /\ times_after_hessian_shaking = accepted_since_refresh

\* C16 (as amended): times_after_hessian_shaking is a non-negative integer
\* that, at every loop head and every other point of the driver, equals the
\* number of pcg invocations since the last Hessian refresh, whether their
\* candidates were accepted, rejected or absent.
C16_CountsPcgCalls ==
    pc # "idle" =>
       /\ times_after_hessian_shaking \in Nat
       /\ times_after_hessian_shaking = pcg_since_refresh

\* two pcg calls on one Hessian with no accepted iteration between them
C16_Witness ==
    /\ pc = "head"
    /\ times_after_hessian_shaking = 2
    /\ accepted_since_refresh = 0
    /\ hessian_is_up_to_date
    /\ H_at = x

\* C18: the assertion of make_hess (line 123) never fails. hess_assert_ok
\* records, over the initialisation and every call site of make_hess
\* (lines 157, 168, 200, 223, 229), that hessian_is_up_to_date was false
\* when make_hess was entered.
C18_AssertNeverFails == hess_assert_ok

\* make_hess called from two sites within one pass of the loop, after the
\* call of the initialisation
C18_Witness ==
    /\ pc = "head"
    /\ iter >= 2
    /\ n_hess = 2
    /\ hess_assert_ok
    /\ hessian_is_up_to_date
    /\ H_at = x

\* C19: success = true is returned only in an iteration in which pcg
\* produced a step. The no-step branch goes straight back to the loop head,
\* leaving x, fval and result alone, so a result returned while the last
\* pcg call (if any) yielded no step has success = false and comes from
\* delta < tol_step or iter > max_iter.
C19_SuccessNeedsStep ==
    /\ []((Done /\ result.success) => pcg_status.x # None)
    /\ []((Done /\ pcg_status.x = None) =>
            /\ ~result.success
            /\ result.via \in {"tol_step", "max_iter"})
    /\ [][(pc = "after_pcg" /\ pcg_status.x = None) =>
            /\ pc' = "head"
            /\ UNCHANGED <<x, fval, result>>]_vars

\* a run started where the gradient is already below tol_grad: pcg was
\* called, never gave a step, and the run ended on the radius
C19_Witness ==
    /\ Done
    /\ iter >= 1
    /\ pcg_status.x = None
    /\ accepted_since_refresh = 0
    /\ RLt(grad.infnorm, opts.tol_grad)
    /\ ~result.success
    /\ result.via = "tol_step"

\* C20: for every pair (reduce, pcg_status.fval), pcg_status.fval zero or
\* positive included, the ratio computation divides only when
\* pcg_status.fval < reduce < 0, hence never by zero, and its value lies
\* in [0, 1].
C20_RatioWellDefined ==
    rout.branch # "none" =>
       /\ rout.branch = "divide" =>
             /\ rout.divisor # RZero
             /\ RLt(rin.fval, rin.reduce)
             /\ RLt(rin.reduce, RZero)
       /\ RLe(RZero, rout.ratio)
       /\ RLe(rout.ratio, ROne)

\* the division was evaluated, giving a ratio strictly between 0 and 1
C20_Witness ==
    /\ rout.branch = "divide"
    /\ rout.divisor = rin.fval
    /\ rout.ratio = RDiv(rin.reduce, rin.fval)
    /\ RLt(RZero, rout.ratio)
    /\ RLt(rout.ratio, ROne)
====
